---- MODULE Spec2Model ----
(***************************************************************************)
(* Model of src/api/controllers/recipe.controller.ts: the four routes of   *)
(* the recipe router (GET /recipes, GET /recipe/:id, POST /recipe,         *)
(* DELETE /recipe/:id), their express-validator chains, throwIfInvalid,    *)
(* and the store collaborators the handlers await.                         *)
(*                                                                         *)
(* The router keeps no state of its own between requests, so one request   *)
(* at a time is followed through its middleware chain; the record store    *)
(* persists from one request to the next.                                  *)
(*                                                                         *)
(* Strings are sequences of one-character strings, so that toLowerCase,    *)
(* trim, isLength, isNumeric and parseInt are computed character by        *)
(* character.  A character stands for one unit counted by isLength.        *)
(***************************************************************************)
EXTENDS Integers, Sequences, FiniteSets, TLC

\* ---------------------------------------------------------------- bounds
\* Longest run of whitespace put before / after an id in a request.
MaxPad == 1
\* Most query fields supplied by one list request.
MaxFields == 2
\* Most fields of the valid sample payload changed or removed in one create
\* request.
MaxEdits == 2

\* ------------------------------------------------------- program constant
\* isLength({ min: 25, max: 25 })
IdLen == 25

\* ------------------------------------------------------------ JS values
Str(s) == [t |-> "string", v |-> s]
Num(n) == [t |-> "number", v |-> n]
Bool(b) == [t |-> "boolean", v |-> b]
Arr(s) == [t |-> "array", v |-> s]
Obj == [t |-> "object", v |-> 0]
NaN == [t |-> "NaN", v |-> 0]
Undefined == [t |-> "undefined", v |-> 0]
Null == [t |-> "null", v |-> 0]

\* An object is a function from its keys; a missing key reads as undefined.
EmptyObj == [k \in {} |-> Undefined]
Get(obj, k) == IF k \in DOMAIN obj THEN obj[k] ELSE Undefined
Set(obj, k, val) == [g \in DOMAIN obj \cup {k} |-> IF g = k THEN val ELSE obj[g]]
Del(obj, k) == [g \in DOMAIN obj \ {k} |-> obj[g]]

\* ------------------------------------------------------------ characters
Upper == <<"A","B","C","D","E","F","G","H","I","J","K","L","M",
           "N","O","P","Q","R","S","T","U","V","W","X","Y","Z">>
Lower == <<"a","b","c","d","e","f","g","h","i","j","k","l","m",
           "n","o","p","q","r","s","t","u","v","w","x","y","z">>
DigitChars == <<"0","1","2","3","4","5","6","7","8","9">>
Digits == {DigitChars[i] : i \in 1..10}
\* The characters JavaScript's \s matches, among those the inputs use.
Whitespace == {" ", "\t"}

LowerChar(c) ==
  IF \E i \in 1..26 : Upper[i] = c
  THEN Lower[CHOOSE i \in 1..26 : Upper[i] = c]
  ELSE c
DigitVal(c) == (CHOOSE i \in 1..10 : DigitChars[i] = c) - 1

Rep(c, n) == [i \in 1..n |-> c]
LowerStr(s) == [i \in 1..Len(s) |-> LowerChar(s[i])]
AllDigits(s) == \A i \in 1..Len(s) : s[i] \in Digits

RECURSIVE DigitsVal(_)
DigitsVal(s) ==
  IF s = <<>> THEN 0
  ELSE 10 * DigitsVal(SubSeq(s, 1, Len(s) - 1)) + DigitVal(s[Len(s)])

RECURSIVE NatToStr(_)
NatToStr(n) ==
  IF n < 10 THEN <<DigitChars[n + 1]>>
  ELSE NatToStr(n \div 10) \o <<DigitChars[(n % 10) + 1]>>

\* String literals of the model.
s_true == <<"t","r","u","e">>
s_false == <<"f","a","l","s","e">>
s_object == <<"[","o","b","j","e","c","t"," ","O","b","j","e","c","t","]">>

\* express-validator's toString: what standard validators and sanitizers see.
ToStr(val) ==
  CASE val.t = "string" -> val.v
    [] val.t = "number" -> IF val.v < 0 THEN <<"-">> \o NatToStr(-val.v) ELSE NatToStr(val.v)
    [] val.t = "boolean" -> IF val.v THEN s_true ELSE s_false
    [] val.t = "object" -> s_object
    [] OTHER -> <<>>

\* --------------------------------------------- validator.js, as the chains use it
RECURSIVE ltrim(_)
ltrim(s) == IF s # <<>> /\ s[1] \in Whitespace THEN ltrim(Tail(s)) ELSE s
RECURSIVE rtrim(_)
rtrim(s) ==
  IF s # <<>> /\ s[Len(s)] \in Whitespace THEN rtrim(SubSeq(s, 1, Len(s) - 1)) ELSE s
trim(s) == rtrim(ltrim(s))

isLength(s, min, max) == Len(s) >= min /\ Len(s) <= max

Unsigned(s) == IF s # <<>> /\ s[1] \in {"+", "-"} THEN Tail(s) ELSE s
\* /^[+-]?([0-9]*[.])?[0-9]+$/
isNumeric(s) ==
  LET u == Unsigned(s) IN
    \/ u # <<>> /\ AllDigits(u)
    \/ \E k \in 1..(Len(u) - 1) :
         /\ u[k] = "."
         /\ AllDigits(SubSeq(u, 1, k - 1))
         /\ AllDigits(SubSeq(u, k + 1, Len(u)))

\* parseInt(s, 10): leading whitespace, a sign, then the longest run of digits.
RECURSIVE DigitRun(_)
DigitRun(s) == IF s # <<>> /\ s[1] \in Digits THEN <<s[1]>> \o DigitRun(Tail(s)) ELSE <<>>
toInt(s) ==
  LET w == ltrim(s)
      run == DigitRun(Unsigned(w))
  IN IF run = <<>> THEN NaN
     ELSE IF w[1] = "-" THEN Num(-DigitsVal(run)) ELSE Num(DigitsVal(run))

isBoolean(s) == s \in {s_true, s_false, <<"1">>, <<"0">>}
toBoolean(s) == Bool(s # <<"0">> /\ LowerStr(s) # s_false /\ s # <<>>)
isIn(s, values) == s \in values

isString(val) == val.t = "string"
toLowerCase(val) == IF val.t = "string" THEN Str(LowerStr(val.v)) ELSE val
exists(val) == val # Undefined

\* ---------------------------------------------------------- vocabularies
\* Object.keys(difficulty), Object.keys(media), Object.keys(taste),
\* Object.keys(unit): config/models is not part of the sources at hand; the
\* keys are lowercase tokens.
difficulty == {<<"e","a","s","y">>, <<"h","a","r","d">>}
media == {<<"b","o","o","k">>, <<"w","e","b">>}
taste == {<<"s","w","e","e","t">>, <<"s","a","l","t","y">>}
unit == {<<"g">>, <<"m","l">>}

\* ------------------------------------------------------ validation chains
\* What a chain leaves for one field: the value its sanitizers write back to
\* the request, and whether all its validators passed.  A chain does not stop
\* at a failed validator, so the sanitizers run in either case.
FilterFields ==
  {"name", "servings", "time", "reference", "difficulty", "media", "taste", "vegetarian"}

FilterChain(f, val) ==
  CASE f = "name" -> [value |-> val, ok |-> isString(val)]
    [] f = "servings" -> [value |-> toInt(ToStr(val)), ok |-> isNumeric(ToStr(val))]
    [] f = "time" -> [value |-> toInt(ToStr(val)), ok |-> isNumeric(ToStr(val))]
    [] f = "reference" -> [value |-> val, ok |-> isString(val)]
    [] f = "difficulty" ->
         [value |-> toLowerCase(val), ok |-> isIn(ToStr(toLowerCase(val)), difficulty)]
    [] f = "media" ->
         [value |-> toLowerCase(val), ok |-> isIn(ToStr(toLowerCase(val)), media)]
    [] f = "taste" ->
         [value |-> toLowerCase(val), ok |-> isIn(ToStr(toLowerCase(val)), taste)]
    [] f = "vegetarian" ->
         [value |-> toBoolean(ToStr(val)), ok |-> isBoolean(ToStr(val))]

\* query(f).if(query(f).exists()): a field the query does not hold is skipped.
FilterValidation(r) ==
  LET present == {f \in FilterFields : exists(Get(r.query, f))}
      q == [f \in DOMAIN r.query |->
              IF f \in present THEN FilterChain(f, r.query[f]).value ELSE r.query[f]]
  IN [req |-> [r EXCEPT !.query = q],
      errors |-> {[field |-> f, idx |-> 0] :
                    f \in {g \in present : ~FilterChain(g, r.query[g]).ok}}]

\* param('id').isLength({ min: 25, max: 25 })
GetIdChain(val) == [value |-> val, ok |-> isLength(ToStr(val), IdLen, IdLen)]

GetIdValidation(r) ==
  LET c == GetIdChain(Get(r.params, "id"))
  IN [req |-> [r EXCEPT !.params = Set(r.params, "id", c.value)],
      errors |-> IF c.ok THEN {} ELSE {[field |-> "id", idx |-> 0]}]

\* Mutant: the chain without trim().
DeleteIdChain_NoTrim(val) == [value |-> val, ok |-> isLength(ToStr(val), IdLen, IdLen)]

\* param('id').trim().isLength({ min: 25, max: 25 })
DeleteIdChain(val) ==
  [value |-> Str(trim(ToStr(val))), ok |-> isLength(trim(ToStr(val)), IdLen, IdLen)]

DeleteIdValidation(r) ==
  LET c == DeleteIdChain(Get(r.params, "id"))
  IN [req |-> [r EXCEPT !.params = Set(r.params, "id", c.value)],
      errors |-> IF c.ok THEN {} ELSE {[field |-> "id", idx |-> 0]}]

RecipeFields ==
  {"name", "description", "servings", "time", "reference", "difficulty", "media",
   "taste", "vegetarian"}
IngredientFields == {"name", "amount", "unit"}

\* Mutant: name made optional.
RecipeChain_OptionalName(f, val) ==
  CASE f = "name" -> [value |-> val, ok |-> isString(val) \/ ~exists(val)]
    [] f = "description" -> [value |-> val, ok |-> isString(val)]
    [] f = "servings" -> [value |-> val, ok |-> isNumeric(ToStr(val))]
    [] f = "time" -> [value |-> val, ok |-> isNumeric(ToStr(val))]
    [] f = "reference" -> [value |-> val, ok |-> isString(val)]
    [] f = "difficulty" ->
         [value |-> toLowerCase(val), ok |-> isIn(ToStr(toLowerCase(val)), difficulty)]
    [] f = "media" ->
         [value |-> toLowerCase(val), ok |-> isIn(ToStr(toLowerCase(val)), media)]
    [] f = "taste" ->
         [value |-> toLowerCase(val), ok |-> isIn(ToStr(toLowerCase(val)), taste)]
    [] f = "vegetarian" -> [value |-> val, ok |-> isBoolean(ToStr(val))]

RecipeChain(f, val) ==
  CASE f = "name" -> [value |-> val, ok |-> isString(val)]
    [] f = "description" -> [value |-> val, ok |-> isString(val)]
    [] f = "servings" -> [value |-> val, ok |-> isNumeric(ToStr(val))]
    [] f = "time" -> [value |-> val, ok |-> isNumeric(ToStr(val))]
    [] f = "reference" -> [value |-> val, ok |-> isString(val)]
    [] f = "difficulty" ->
         [value |-> toLowerCase(val), ok |-> isIn(ToStr(toLowerCase(val)), difficulty)]
    [] f = "media" ->
         [value |-> toLowerCase(val), ok |-> isIn(ToStr(toLowerCase(val)), media)]
    [] f = "taste" ->
         [value |-> toLowerCase(val), ok |-> isIn(ToStr(toLowerCase(val)), taste)]
    [] f = "vegetarian" -> [value |-> val, ok |-> isBoolean(ToStr(val))]

\* Mutant: unit checked without toLowerCase().
IngredientChain_CaseSensitive(f, val) ==
  CASE f = "name" -> [value |-> val, ok |-> isString(val)]
    [] f = "amount" -> [value |-> val, ok |-> isNumeric(ToStr(val))]
    [] f = "unit" -> [value |-> val, ok |-> isIn(ToStr(val), unit)]

\* check('ingredients.*.name'), check('ingredients.*.amount'),
\* check('ingredients.*.unit')
IngredientChain(f, val) ==
  CASE f = "name" -> [value |-> val, ok |-> isString(val)]
    [] f = "amount" -> [value |-> val, ok |-> isNumeric(ToStr(val))]
    [] f = "unit" ->
         [value |-> toLowerCase(val), ok |-> isIn(ToStr(toLowerCase(val)), unit)]

\* The elements the wildcard ingredients.* selects in the body.
Ingredients(body) ==
  IF Get(body, "ingredients").t = "array" THEN Get(body, "ingredients").v ELSE <<>>

RecipeValidation(r) ==
  LET ings == Ingredients(r.body)
      ing2(i) == [f \in DOMAIN ings[i] |->
                    IF f \in IngredientFields
                    THEN IngredientChain(f, ings[i][f]).value ELSE ings[i][f]]
      b == [f \in DOMAIN r.body |->
              CASE f \in RecipeFields -> RecipeChain(f, r.body[f]).value
                [] f = "ingredients" /\ r.body[f].t = "array" ->
                     Arr([i \in 1..Len(ings) |-> ing2(i)])
                [] OTHER -> r.body[f]]
  IN [req |-> [r EXCEPT !.body = b],
      errors |->
        {[field |-> f, idx |-> 0] :
           f \in {g \in RecipeFields : ~RecipeChain(g, Get(r.body, g)).ok}}
        \cup
        {[field |-> p[1], idx |-> p[2]] :
           p \in {x \in IngredientFields \X (1..Len(ings)) :
                    ~IngredientChain(x[1], Get(ings[x[2]], x[1])).ok}}]

\* matchedData(req): the fields the route's chains name, with the values the
\* sanitizers left, without the fields whose value is undefined.
MatchedFilter(r) == [f \in {g \in FilterFields : exists(Get(r.query, g))} |-> r.query[f]]
MatchedId(r) == Get(r.params, "id")

\* --------------------------------------------------------------- requests
s_soup == <<"s","o","u","p">>
s_hard == <<"h","a","r","d">>

\* Ids as they arrive in the path: a core of one letter, of length 24, 25 or
\* 26, with whitespace before and after, and one 25-character id with a
\* blank in its middle.
IdInputs ==
  {Rep(w, i) \o Rep(c, n) \o Rep(w, j) :
     w \in Whitespace, c \in {"a", "b"}, n \in (IdLen - 1)..(IdLen + 1),
     i \in 0..MaxPad, j \in 0..MaxPad}
  \cup {Rep("a", 12) \o <<" ">> \o Rep("a", IdLen - 13)}

\* Values a query string can give each field; "page" is a field no chain names.
QueryFieldNames == FilterFields \cup {"page"}
QueryValues(f) ==
  CASE f = "name" -> {Str(s_soup), Obj}
    [] f = "servings" -> {Str(<<"4">>), Str(<<"1",".","5">>), Str(<<".","5">>), Str(<<"x">>)}
    [] f = "time" -> {Str(<<"3","0">>), Str(<<"-","7">>), Str(<<>>)}
    [] f = "reference" -> {Str(<<"w","w","w">>), Obj}
    [] f = "difficulty" ->
         {Str(s_hard), Str(<<"H","a","r","d">>), Str(<<"H","A","R","D">>),
          Str(<<"h","a","r","d","y">>)}
    [] f = "media" -> {Str(<<"B","o","o","k">>), Str(<<"t","v">>)}
    [] f = "taste" -> {Str(<<"S","W","E","E","T">>), Str(<<"s","o","u","r">>)}
    [] f = "vegetarian" ->
         {Str(s_true), Str(<<"0">>), Str(<<"F","a","l","s","e">>), Str(<<"y","e","s">>)}
    [] f = "page" -> {Str(<<"2">>)}

RECURSIVE QueriesWith(_)
QueriesWith(k) ==
  IF k = 0 THEN {EmptyObj}
  ELSE LET P == QueriesWith(k - 1) IN
    P \cup UNION {UNION {{Set(q, f, val) : val \in QueryValues(f)} :
                          f \in QueryFieldNames \ DOMAIN q} : q \in P}
QueryInputs == QueriesWith(MaxFields)

\* Ingredients of a payload.
Ingredient(n, a, u) == [name |-> n, amount |-> a, unit |-> u]
SaltG == Ingredient(Str(<<"S","a","l","t">>), Num(1), Str(<<"g">>))
OilML == Ingredient(Str(<<"O","i","l">>), Str(<<"2",".","5">>), Str(<<"M","L">>))
SaltCup == Ingredient(Str(<<"S","a","l","t">>), Num(1), Str(<<"c","u","p">>))
SaltNoUnit == [name |-> Str(<<"S","a","l","t">>), amount |-> Num(1)]
SaltSome == Ingredient(Str(<<"S","a","l","t">>), Str(<<"s","o","m","e">>), Str(<<"g">>))

\* A valid payload, and what one edit can put in place of a field of it.
SamplePayload ==
  [name |-> Str(s_soup), description |-> Str(<<"h","o","t">>), servings |-> Num(4),
   time |-> Num(30), reference |-> Str(<<"w","w","w">>), difficulty |-> Str(<<"e","a","s","y">>),
   media |-> Str(<<"b","o","o","k">>), taste |-> Str(<<"s","a","l","t","y">>),
   vegetarian |-> Bool(TRUE), ingredients |-> Arr(<<SaltG>>)]
BodyValues(f) ==
  CASE f = "name" -> {Num(7)}
    [] f = "description" -> {Obj}
    [] f = "servings" -> {Str(<<"4">>), Str(<<"x">>)}
    [] f = "time" -> {Str(<<"1",".","5">>), Bool(TRUE)}
    [] f = "reference" -> {Bool(FALSE)}
    [] f = "difficulty" -> {Str(<<"H","a","r","d">>), Str(<<"h","a","r","d","y">>), Num(1)}
    [] f = "media" -> {Str(<<"W","E","B">>), Str(<<"t","v">>)}
    [] f = "taste" -> {Str(<<"S","w","e","e","t">>), Str(<<"s","o","u","r">>)}
    [] f = "vegetarian" -> {Str(s_false), Str(<<"y","e","s">>)}
    [] f = "ingredients" ->
         {Arr(<<>>), Arr(<<SaltG, OilML>>), Arr(<<SaltCup>>), Arr(<<SaltNoUnit>>),
          Arr(<<SaltG, SaltSome>>)}

RECURSIVE PayloadsWith(_)
PayloadsWith(k) ==
  IF k = 0 THEN {SamplePayload}
  ELSE LET P == PayloadsWith(k - 1) IN
    P \cup UNION {UNION {{Set(b, f, val) : val \in BodyValues(f)} \cup {Del(b, f)} :
                          f \in DOMAIN b} : b \in P}
BodyInputs == PayloadsWith(MaxEdits)

Request(o, p, q, b) == [op |-> o, params |-> p, query |-> q, body |-> b]
IdParams(id) == [k \in {"id"} |-> Str(id)]
Requests ==
  {Request("list", EmptyObj, q, EmptyObj) : q \in QueryInputs}
  \cup {Request("get", IdParams(id), EmptyObj, EmptyObj) : id \in IdInputs}
  \cup {Request("create", EmptyObj, EmptyObj, b) : b \in BodyInputs}
  \cup {Request("delete", IdParams(id), EmptyObj, EmptyObj) : id \in IdInputs}
NoRequest == Request("none", EmptyObj, EmptyObj, EmptyObj)

\* ------------------------------------------------------------------ store
\* The store names a new record with an id of its own making, 25 characters
\* long.
IdPool == <<Rep("a", IdLen), Rep("b", IdLen)>>
Recipe(id) == [t |-> "Recipe", v |-> id]
RecipesOf(S) ==
  LET ids == SelectSeq(IdPool, LAMBDA i : i \in S)
  IN Arr([k \in 1..Len(ids) |-> Recipe(ids[k])])

Returned(val) == [kind |-> "value", value |-> val]
Raised(why) == [kind |-> "raise", value |-> [t |-> "error", v |-> why]]
NoReturn == [kind |-> "none", value |-> Undefined]

\* -------------------------------------------------------------- responses
Text(str) == [t |-> "text", v |-> str]
Json(val) == [status |-> 200, type |-> "json", body |-> val]
NotFound == [status |-> 404, type |-> "text", body |-> Text("Entity not found")]
Success == [status |-> 200, type |-> "text", body |-> Text("Success")]

VARIABLES
  store,    \* ids of the recipes the record store holds
  pc,       \* where the request in hand is in its route
  raw,      \* the request as it arrived
  req,      \* the request as the sanitizers have left it
  errors,   \* validationResult(req)
  logged,   \* calls of requestLogger for this request
  calls,    \* store calls issued for this request
  ret,      \* what the awaited store call gave
  sent,     \* responses sent for this request
  thrown,   \* the exception that left the route, if any
  trace,    \* the steps of this request, in order
  previous  \* history: the request that ended last, if it issued a delete
vars == <<store, pc, raw, req, errors, logged, calls, ret, sent, thrown, trace, previous>>

NoDelete == [deleted |-> FALSE, id |-> <<>>, success |-> FALSE]

Init ==
  /\ store = {}
  /\ pc = "idle"
  /\ raw = NoRequest
  /\ req = NoRequest
  /\ errors = {}
  /\ logged = 0
  /\ calls = <<>>
  /\ ret = NoReturn
  /\ sent = <<>>
  /\ thrown = "none"
  /\ trace = <<>>
  /\ previous = NoDelete

\* A request reaches the router.
Receive(r) ==
  /\ pc = "idle"
  /\ pc' = "chains"
  /\ raw' = r
  /\ req' = r
  /\ UNCHANGED <<store, errors, logged, calls, ret, sent, thrown, trace, previous>>

\* The request is over; the router keeps nothing of it.
EndRequest ==
  /\ pc = "done"
  /\ pc' = "idle"
  /\ raw' = NoRequest
  /\ req' = NoRequest
  /\ errors' = {}
  /\ logged' = 0
  /\ calls' = <<>>
  /\ ret' = NoReturn
  /\ sent' = <<>>
  /\ thrown' = "none"
  /\ trace' = <<>>
  /\ previous' = IF calls # <<>> /\ calls[1].fn = "delete"
                 THEN [deleted |-> TRUE, id |-> calls[1].arg.v, success |-> sent = <<Success>>]
                 ELSE NoDelete
  /\ UNCHANGED store

\* The validation chains of a route run: sanitizers rewrite the request,
\* failed validators are recorded.
RunChains(o, result) ==
  /\ pc = "chains"
  /\ req.op = o
  /\ req' = result.req
  /\ errors' = result.errors
  /\ trace' = Append(trace, "validate")
  /\ pc' = "throwIfInvalid"
  /\ UNCHANGED <<store, raw, logged, calls, ret, sent, thrown, previous>>

RunFilterValidation == RunChains("list", FilterValidation(req))
RunGetIdValidation == RunChains("get", GetIdValidation(req))
RunRecipeValidation == RunChains("create", RecipeValidation(req))
RunDeleteIdValidation == RunChains("delete", DeleteIdValidation(req))

\* Mutant: next() whatever validationResult holds.
throwIfInvalid_AlwaysNext ==
  /\ pc = "throwIfInvalid"
  /\ pc' = "handler"
  /\ UNCHANGED <<store, raw, req, errors, logged, calls, ret, sent, thrown, trace, previous>>

throwIfInvalid ==
  /\ pc = "throwIfInvalid"
  /\ IF errors # {}
     THEN /\ thrown' = "ValidationException"
          /\ trace' = Append(trace, "throw")
          /\ pc' = "done"
     ELSE /\ pc' = "handler"
          /\ UNCHANGED <<thrown, trace>>
  /\ UNCHANGED <<store, raw, req, errors, logged, calls, ret, sent, previous>>

\* ---------------------------------------------------------------- handlers
\* Each handler runs to its await in one step: it logs the request and
\* issues its store call.
\* Mutant: the store call issued before the request is logged.
Call_ThenLog(fn, arg) ==
  /\ pc = "handler"
  /\ logged' = logged + 1
  /\ calls' = Append(calls, [fn |-> fn, arg |-> arg])
  /\ trace' = trace \o <<"call", "log">>
  /\ pc' = "await"
  /\ UNCHANGED <<store, raw, req, errors, ret, sent, thrown, previous>>

Call(fn, arg) ==
  /\ pc = "handler"
  /\ logged' = logged + 1
  /\ calls' = Append(calls, [fn |-> fn, arg |-> arg])
  /\ trace' = trace \o <<"log", "call">>
  /\ pc' = "await"
  /\ UNCHANGED <<store, raw, req, errors, ret, sent, thrown, previous>>

\* Mutant: the id taken as it arrived, not as the chain left it.
DeleteRecipeHandler_RawId == req.op = "delete" /\ Call("delete", raw.params.id)

GetRecipesHandler == req.op = "list" /\ Call("getAllRecipes", MatchedFilter(req))
GetRecipeHandler == req.op = "get" /\ Call("getRecipe", MatchedId(req))
PostRecipeHandler == req.op = "create" /\ Call("createRecipe", req.body)
DeleteRecipeHandler == req.op = "delete" /\ Call("delete", MatchedId(req))

\* The store call in flight.
Awaiting(fn) == pc = "await" /\ calls[Len(calls)].fn = fn
Arg == calls[Len(calls)].arg
Settle(outcome) ==
  /\ ret' = outcome
  /\ trace' = Append(trace, "return")
  /\ pc' = "resume"
  /\ UNCHANGED <<raw, req, errors, logged, calls, sent, thrown, previous>>

\* services/recipe.service is not part of the sources at hand.  The three
\* services answer as the store interface says: a sequence of stored recipes,
\* a recipe or nothing, the recipe just created; each may fail.
getAllRecipes ==
  /\ Awaiting("getAllRecipes")
  /\ \/ \E S \in SUBSET store : Settle(Returned(RecipesOf(S)))
     \/ Settle(Raised("failure"))
  /\ UNCHANGED store

getRecipe ==
  /\ Awaiting("getRecipe")
  /\ \/ Settle(Returned(IF Arg.v \in store THEN Recipe(Arg.v) ELSE Null))
     \/ Settle(Raised("failure"))
  /\ UNCHANGED store

createRecipe ==
  /\ Awaiting("createRecipe")
  /\ \/ \E k \in 1..Len(IdPool) :
          /\ IdPool[k] \notin store
          /\ store' = store \cup {IdPool[k]}
          /\ Settle(Returned(Recipe(IdPool[k])))
     \/ Settle(Raised("failure")) /\ UNCHANGED store

\* prisma.recipes.delete({ where: { id } }): deletes the record with that id
\* and resolves to it; rejects (record not found) when no record has the id.
prismaRecipesDelete ==
  /\ Awaiting("delete")
  /\ \/ /\ Arg.v \in store
        /\ store' = store \ {Arg.v}
        /\ Settle(Returned(Recipe(Arg.v)))
     \/ /\ Arg.v \notin store
        /\ Settle(Raised("RecordNotFound"))
        /\ UNCHANGED store
     \/ Settle(Raised("failure")) /\ UNCHANGED store

\* Mutant: a failed store call is tried again, once.
Resume_Retry(o, responses) ==
  /\ pc = "resume"
  /\ req.op = o
  /\ IF ret.kind = "raise"
     THEN IF Len(calls) < 2
          THEN /\ pc' = "handler"
               /\ UNCHANGED <<sent, thrown, trace>>
          ELSE /\ thrown' = "StoreFailure"
               /\ trace' = Append(trace, "throw")
               /\ pc' = "done"
               /\ UNCHANGED sent
     ELSE /\ sent' = sent \o responses
          /\ trace' = trace \o [i \in 1..Len(responses) |-> "response"]
          /\ pc' = "done"
          /\ UNCHANGED thrown
  /\ UNCHANGED <<store, raw, req, errors, logged, calls, ret, previous>>

\* The handler after its await.  A rejected store call leaves the handler as
\* an exception: nothing after the await runs.
Resume(o, responses) ==
  /\ pc = "resume"
  /\ req.op = o
  /\ IF ret.kind = "raise"
     THEN /\ thrown' = "StoreFailure"
          /\ trace' = Append(trace, "throw")
          /\ UNCHANGED sent
     ELSE /\ sent' = sent \o responses
          /\ trace' = trace \o [i \in 1..Len(responses) |-> "response"]
          /\ UNCHANGED thrown
  /\ pc' = "done"
  /\ UNCHANGED <<store, raw, req, errors, logged, calls, ret, previous>>

\* Mutant: the 404 branch without its return.
GetRecipeResume_NoReturn ==
  Resume("get", IF ret.value = Null THEN <<NotFound, Json(ret.value)>> ELSE <<Json(ret.value)>>)

\* Mutant: the store's failure caught, "Success" sent all the same.
DeleteRecipeResume_CatchAll ==
  /\ pc = "resume"
  /\ req.op = "delete"
  /\ sent' = Append(sent, Success)
  /\ trace' = Append(trace, "response")
  /\ pc' = "done"
  /\ UNCHANGED <<store, raw, req, errors, logged, calls, ret, thrown, previous>>

GetRecipesResume == Resume("list", <<Json(ret.value)>>)
GetRecipeResume ==
  Resume("get", IF ret.value = Null THEN <<NotFound>> ELSE <<Json(ret.value)>>)
PostRecipeResume == Resume("create", <<Json(ret.value)>>)
DeleteRecipeResume == Resume("delete", <<Success>>)

Next ==
  \/ \E r \in Requests : Receive(r)
  \/ RunFilterValidation
  \/ RunGetIdValidation
  \/ RunRecipeValidation
  \/ RunDeleteIdValidation
  \/ throwIfInvalid
  \/ GetRecipesHandler
  \/ GetRecipeHandler
  \/ PostRecipeHandler
  \/ DeleteRecipeHandler
  \/ getAllRecipes
  \/ getRecipe
  \/ createRecipe
  \/ prismaRecipesDelete
  \/ GetRecipesResume
  \/ GetRecipeResume
  \/ PostRecipeResume
  \/ DeleteRecipeResume
  \/ EndRequest

Spec == Init /\ [][Next]_vars

\* ================================================================= claims
\* The chains of the request in hand have run.
Validated == pc \in {"throwIfInvalid", "handler", "await", "resume", "done"}
Failed(f, i) == [field |-> f, idx |-> i] \in errors
Count(ev) == Cardinality({i \in 1..Len(trace) : trace[i] = ev})
Before(a, b) ==
  \A i \in 1..Len(trace) : \A j \in 1..Len(trace) :
    (trace[i] = a /\ trace[j] = b) => i < j

\* s is core with nothing but whitespace before and after it, and core neither
\* starts nor ends with whitespace.
Strips(s, core) ==
  /\ core # <<>>
  /\ core[1] \notin Whitespace
  /\ core[Len(core)] \notin Whitespace
  /\ \E i \in 0..Len(s) :
       /\ i + Len(core) <= Len(s)
       /\ SubSeq(s, i + 1, i + Len(core)) = core
       /\ \A k \in 1..i : s[k] \in Whitespace
       /\ \A k \in (i + Len(core) + 1)..Len(s) : s[k] \in Whitespace
\* s is n characters, the first and the last no whitespace, padded with whitespace.
PaddedCore(s, n) ==
  \E i \in 0..Len(s) : i + n <= Len(s) /\ Strips(s, SubSeq(s, i + 1, i + n))

EnumFields == {"difficulty", "media", "taste"}
Vocabulary(f) ==
  CASE f = "difficulty" -> difficulty
    [] f = "media" -> media
    [] f = "taste" -> taste
    [] f = "unit" -> unit
\* The lowercased form of val is a key of f's vocabulary.
InVocabulary(f, val) == val.t = "string" /\ LowerStr(val.v) \in Vocabulary(f)

\* C1: in each of the four routes, a request with a field that fails
\* validation causes no store call, is not logged, gets no response and ends
\* with a ValidationException; a store call is issued only for a request whose
\* validation ran first and found nothing.
C1_InvalidNeverReachesStore ==
  /\ errors # {} =>
       /\ calls = <<>>
       /\ logged = 0
       /\ sent = <<>>
       /\ pc \in {"throwIfInvalid", "done"}
       /\ pc = "done" => thrown = "ValidationException"
  /\ calls # <<>> =>
       /\ errors = {}
       /\ thrown # "ValidationException"
       /\ Before("validate", "call")
       /\ Count("validate") = 1
C1_Witness ==
  /\ pc = "done"
  /\ req.op = "list"
  /\ Cardinality(DOMAIN raw.query) = 2
  /\ Cardinality(errors) = 1
  /\ thrown = "ValidationException"

\* C2: GET /recipe/:id with a 25-character id: when the store gives a
\* recipe, the one response is that recipe as JSON; when the store gives
\* nothing, the one response is 404 "Entity not found" and nothing is thrown;
\* never two responses.
C2_RecipeOrNotFound ==
  (pc = "done" /\ req.op = "get" /\ ret.kind = "value") =>
    /\ Len(raw.params.id.v) = IdLen
    /\ thrown = "none"
    /\ Len(sent) = 1
    /\ ret.value # Null => sent = <<Json(ret.value)>>
    /\ ret.value = Null =>
         sent = <<[status |-> 404, type |-> "text", body |-> Text("Entity not found")]>>
C2_Witness ==
  /\ pc = "done"
  /\ req.op = "get"
  /\ ret = Returned(Null)
  /\ sent = <<NotFound>>

\* C3: POST /recipe: a payload that lacks one of the nine required fields is
\* rejected and createRecipe is not called; a payload that passes validation
\* (the sample payload does) has createRecipe called exactly once, and the
\* recipe the store returns, with its id, is the response.
C3_CreateRequiresAllFields ==
  (req.op = "create" /\ Validated) =>
    /\ (RecipeFields \ DOMAIN raw.body # {}) =>
         /\ errors # {}
         /\ calls = <<>>
         /\ pc = "done" => thrown = "ValidationException" /\ sent = <<>>
    /\ raw.body = SamplePayload => errors = {}
    /\ (errors = {} /\ pc \in {"await", "resume", "done"}) =>
         /\ Len(calls) = 1
         /\ calls[1].fn = "createRecipe"
    /\ (errors = {} /\ pc = "done" /\ ret.kind = "value") =>
         /\ sent = <<Json(ret.value)>>
         /\ ret.value.t = "Recipe"
         /\ Len(ret.value.v) = IdLen
C3_Witness ==
  /\ pc = "done"
  /\ req.op = "create"
  /\ raw.body = SamplePayload
  /\ Len(calls) = 1
  /\ sent = <<Json(Recipe(IdPool[1]))>>

\* C4, as claimed: a DELETE /recipe/:id with a well-formed id that follows a
\* successful delete of the same id reports "Success" too (the store being
\* otherwise in working order).
C4_SecondDeleteSucceeds ==
  (/\ pc = "done"
   /\ req.op = "delete"
   /\ errors = {}
   /\ previous = [deleted |-> TRUE, id |-> calls[1].arg.v, success |-> TRUE]
   /\ ret # Raised("failure"))
  => sent = <<Success>>

\* C4, amended: DELETE /recipe/:id with a well-formed id issues one delete to
\* the store whether or not a recipe has that id, and reports "Success"
\* exactly when that call resolves; the handler treats a second delete like
\* the first, and since the store's delete rejects for an id no record has,
\* a delete that follows a successful delete of the same id sends no
\* "Success": the store's failure leaves the handler.
C4_SuccessIffStoreDeleted ==
  (req.op = "delete" /\ errors = {}) =>
    /\ pc \in {"await", "resume", "done"} =>
         calls = <<[fn |-> "delete", arg |-> req.params.id]>>
    /\ pc = "done" =>
         /\ sent = <<Success>> <=> ret.kind = "value"
         /\ ret.kind = "raise" => sent = <<>> /\ thrown = "StoreFailure"
         /\ previous = [deleted |-> TRUE, id |-> calls[1].arg.v, success |-> TRUE] =>
              /\ ret.kind = "raise"
              /\ sent = <<>>
C4_Witness ==
  /\ pc = "done"
  /\ req.op = "delete"
  /\ calls # <<>>
  /\ previous = [deleted |-> TRUE, id |-> calls[1].arg.v, success |-> TRUE]
  /\ ret = Raised("RecordNotFound")
  /\ thrown = "StoreFailure"
  /\ sent = <<>>

\* C5: every id passed to getRecipe or to the store's delete is a string of
\* exactly 25 characters; GET /recipe/:id with an id of another length fails
\* validation and calls nothing; the id DELETE passes on is the request's id
\* with the surrounding whitespace removed.
C5_StoreIdsHave25Characters ==
  /\ \A k \in 1..Len(calls) :
       calls[k].fn \in {"getRecipe", "delete"} =>
         calls[k].arg.t = "string" /\ Len(calls[k].arg.v) = IdLen
  /\ (req.op = "get" /\ Validated /\ Len(raw.params.id.v) # IdLen) =>
       /\ errors # {}
       /\ calls = <<>>
       /\ pc = "done" => thrown = "ValidationException"
  /\ (req.op = "delete" /\ calls # <<>>) => Strips(raw.params.id.v, calls[1].arg.v)
C5_Witness ==
  /\ req.op = "delete"
  /\ pc = "await"
  /\ Len(raw.params.id.v) = IdLen + 2
  /\ Len(calls[1].arg.v) = IdLen

\* C6: DELETE /recipe/:id accepts an id exactly when, with the whitespace
\* before and after it removed, it is 25 characters long; one that is 24
\* characters long without its surrounding whitespace is rejected.
C6_DeleteTrimsBeforeLength ==
  (req.op = "delete" /\ Validated) =>
    /\ errors = {} <=> PaddedCore(raw.params.id.v, IdLen)
    /\ PaddedCore(raw.params.id.v, IdLen - 1) =>
         /\ errors # {}
         /\ pc = "done" => thrown = "ValidationException"
C6_Witness ==
  /\ req.op = "delete"
  /\ pc = "done"
  /\ Len(raw.params.id.v) > IdLen
  /\ raw.params.id.v[1] \in Whitespace
  /\ raw.params.id.v[Len(raw.params.id.v)] \in Whitespace
  /\ errors = {}
  /\ calls # <<>>

\* C7: an enumerated field (difficulty, media, taste of the query and of the
\* payload, unit of each ingredient) passes validation exactly when its
\* lowercased form is a key of its vocabulary, and the value passed to the
\* store is that lowercased form.
C7_EnumsCaseInsensitive ==
  /\ (req.op = "list" /\ Validated) =>
       \A f \in EnumFields \cap DOMAIN raw.query :
         ~Failed(f, 0) <=> InVocabulary(f, raw.query[f])
  /\ (req.op = "list" /\ calls # <<>>) =>
       \A f \in EnumFields \cap DOMAIN raw.query :
         /\ f \in DOMAIN calls[1].arg
         /\ calls[1].arg[f] = Str(LowerStr(raw.query[f].v))
         /\ calls[1].arg[f].v \in Vocabulary(f)
  /\ (req.op = "create" /\ Validated) =>
       /\ \A f \in EnumFields : ~Failed(f, 0) <=> InVocabulary(f, Get(raw.body, f))
       /\ \A i \in 1..Len(Ingredients(raw.body)) :
            ~Failed("unit", i) <=> InVocabulary("unit", Get(Ingredients(raw.body)[i], "unit"))
  /\ (req.op = "create" /\ calls # <<>>) =>
       /\ \A f \in EnumFields :
            /\ calls[1].arg[f] = Str(LowerStr(raw.body[f].v))
            /\ calls[1].arg[f].v \in Vocabulary(f)
       /\ Len(Ingredients(calls[1].arg)) = Len(Ingredients(raw.body))
       /\ \A i \in 1..Len(Ingredients(raw.body)) :
            /\ Ingredients(calls[1].arg)[i].unit =
                 Str(LowerStr(Ingredients(raw.body)[i].unit.v))
            /\ Ingredients(calls[1].arg)[i].unit.v \in unit
C7_Witness ==
  /\ req.op = "create"
  /\ pc = "done"
  /\ calls # <<>>
  /\ raw.body.difficulty = Str(<<"H","a","r","d">>)
  /\ Len(Ingredients(raw.body)) = 2
  /\ Ingredients(raw.body)[2].unit = Str(<<"M","L">>)
  /\ calls[1].arg.difficulty = Str(s_hard)
  /\ Ingredients(calls[1].arg)[2].unit = Str(<<"m","l">>)
  /\ Len(sent) = 1

\* An integer, as opposed to NaN.
IsInteger(val) == val.t = "number" /\ val.v \in Int

\* C8, as claimed: the filter GET /recipes passes to the store holds exactly
\* the declared fields the query supplies, servings and time as integers,
\* vegetarian as a boolean, enumerated fields lowercased, and the response is
\* the sequence the store returns.
C8_FilterCoerced ==
  (req.op = "list" /\ calls # <<>>) =>
    /\ Len(calls) = 1
    /\ calls[1].fn = "getAllRecipes"
    /\ DOMAIN calls[1].arg = FilterFields \cap DOMAIN raw.query
    /\ \A f \in DOMAIN calls[1].arg :
         CASE f \in {"servings", "time"} -> IsInteger(calls[1].arg[f])
           [] f = "vegetarian" -> calls[1].arg[f].t = "boolean"
           [] f \in EnumFields -> calls[1].arg[f] = Str(LowerStr(raw.query[f].v))
           [] OTHER -> calls[1].arg[f] = raw.query[f]
    /\ (pc = "done" /\ ret.kind = "value") => sent = <<Json(ret.value)>>

\* What of C8 the code does keep: all of it but the integers; servings and
\* time reach the store as parseInt leaves them, an integer or NaN.
C8_FilterCoercedOrNaN ==
  (req.op = "list" /\ calls # <<>>) =>
    /\ Len(calls) = 1
    /\ calls[1].fn = "getAllRecipes"
    /\ DOMAIN calls[1].arg = FilterFields \cap DOMAIN raw.query
    /\ \A f \in DOMAIN calls[1].arg :
         CASE f \in {"servings", "time"} ->
                IsInteger(calls[1].arg[f]) \/ calls[1].arg[f] = NaN
           [] f = "vegetarian" -> calls[1].arg[f].t = "boolean"
           [] f \in EnumFields -> calls[1].arg[f] = Str(LowerStr(raw.query[f].v))
           [] OTHER -> calls[1].arg[f] = raw.query[f]
    /\ (pc = "done" /\ ret.kind = "value") => sent = <<Json(ret.value)>>

\* C9: the steps of a request come in the order validate, log, store call,
\* response: a request that passed validation is logged exactly once, before
\* its store call; the store is called at most once; a response is sent only
\* after the store call has returned.
C9_ValidateLogCallRespond ==
  /\ logged = Count("log")
  /\ Len(calls) = Count("call")
  /\ Len(sent) = Count("response")
  /\ Len(calls) <= 1
  /\ Count("return") <= Len(calls)
  /\ Before("validate", "log")
  /\ Before("log", "call")
  /\ Before("call", "return")
  /\ Before("return", "response")
  /\ sent # <<>> => Count("return") = 1
  /\ (errors = {} /\ pc \in {"await", "resume", "done"}) =>
       logged = 1 /\ Len(calls) = 1
C9_Witness ==
  /\ pc = "done"
  /\ req.op = "delete"
  /\ trace = <<"validate", "log", "call", "return", "response">>
  /\ sent = <<Success>>

\* C10: when the store call of DELETE /recipe/:id or POST /recipe fails, the
\* handler neither catches nor retries: the store was called exactly once, the
\* failure leaves the handler, and no response is sent.
C10_StoreFailurePropagates ==
  (req.op \in {"delete", "create"} /\ pc = "done" /\ calls # <<>>) =>
    /\ Len(calls) = 1
    /\ ret.kind = "raise" =>
         /\ thrown = "StoreFailure"
         /\ sent = <<>>
         /\ Count("call") = 1
         /\ trace[Len(trace)] = "throw"
C10_Witness ==
  /\ pc = "done"
  /\ req.op = "create"
  /\ ret = Raised("failure")
  /\ thrown = "StoreFailure"
  /\ sent = <<>>

====
